---- MODULE Spec2Model ----
(***************************************************************************)
(* The step sequencer of grid-toggle.py (class GridStudies): the step      *)
(* matrix, the playhead advanced by the play() loop, the cut / loop        *)
(* gesture of the bottom row handled by on_grid_key(), and draw().         *)
(* Python list indexing is kept: an index i of a list of length n is valid *)
(* for -n <= i < n, a negative one counts from the end, any other raises   *)
(* IndexError.                                                             *)
(***************************************************************************)
EXTENDS Integers, Sequences, FiniteSets, TLC

\* ---- bounds of the model ----
MaxWidth == 4
MaxHeight == 4
MaxCells == 2
MaxHeld == 3
MaxUnder == 1
MaxStray == 1
Margin == 1
MaxRun == 1

\* ---- program constants ----
ReservedRows == 2
OnLevel == 11

VARIABLES
    width, height, sequencer_rows,      \* geometry fields of GridStudies
    step,                               \* self.step[y][x]
    play_position, next_position, cutting, loop_start, loop_end,
    keys_held, key_last,
    connected,
    pc,                                 \* position of the play() coroutine
    play_alive,                         \* the play task has not died of an exception
    raised,                             \* the latest handler run raised IndexError
    trigger_calls,                      \* trigger(i) calls of the latest handler run, in order
    draw_calls,                         \* number of draw() calls of the latest handler run
    levels,                             \* rows last handed to grid.led_level_row
    last,                               \* history: the latest handler run (op); for a pass of
                                        \* play() the play_position and cutting it started from;
                                        \* for a key event its row, and the column of the pending
                                        \* cut request it replaced (over, -1 if none)
    downs,                              \* history: parity of key-downs received per sequencer cell
    keyed,                              \* history: some key event has been received
    stray                               \* history: number of key events received from outside the grid

geom == <<width, height, sequencer_rows>>
playhead == <<play_position, next_position, cutting, loop_start, loop_end>>
gesture == <<keys_held, key_last>>
outputs == <<trigger_calls, draw_calls, levels, last>>
history == <<downs, keyed, stray>>
vars == <<geom, step, playhead, gesture, connected, pc, play_alive, raised, outputs, history>>

\* ---- Python list indexing ----
InRange(i, n) == -n <= i /\ i < n
Norm(i, n) == IF i < 0 THEN i + n ELSE i

\* ---- grids the model is run on: (width, height) of the attached grid ----
Geometries ==
    {g \in (1..MaxWidth) \X (ReservedRows..MaxHeight) :
        g[1] * (g[2] - ReservedRows) <= MaxCells}

Cols == 0..(width - 1)
Rows == 0..(height - 1)
SeqRows == 0..(sequencer_rows - 1)

\* a brighter level for the set cells of the column of the playhead
Buffer_Playhead(st) ==
    [y \in Rows |-> [x \in Cols |->
        IF y < sequencer_rows
        THEN (IF x = play_position /\ st[y][x] = 1 THEN 15 ELSE st[y][x] * OnLevel)
        ELSE 0]]

\* ---- draw(): GridBuffer filled from the sequencer rows of step, then rendered ----
Buffer(st) ==
    [y \in Rows |-> [x \in Cols |->
        IF y < sequencer_rows THEN st[y][x] * OnLevel ELSE 0]]

\* a key-down that switches the cell on instead of flipping it
XorOne_Set(v) == 1

\* ---- on_grid_key(): step[y][x] ^= 1 (line 173) ----
XorOne(v) == (v + 1) % 2

\* the rows of step being one shared list: the column flips in every row
Toggle_SharedRows(st, y, x) ==
    [r \in Rows |-> [st[r] EXCEPT ![Norm(x, width)] = XorOne(@)]]

Toggle(st, y, x) ==
    [st EXCEPT ![Norm(y, height)][Norm(x, width)] = XorOne(@)]

\* the key-down test taking in the row below the sequencer rows
IsStepKey_Inclusive(s, y) == s = 1 /\ y <= sequencer_rows

\* ---- on_grid_key(): the test of line 172 ----
IsStepKey(s, y) == s = 1 /\ y < sequencer_rows

\* ---- on_grid_key(): the test of line 176 ----
IsBottomRow(y) == y = height - 1

\* keys_held compared as it was before the update of line 177
Gesture_BeforeUpdate(s, held) ==
    IF s = 1 /\ held = 2 THEN "cut"
    ELSE IF s = 1 /\ held = 3 THEN "loop"
    ELSE "none"

\* the test of s left out of the cut: a release back to one held key cuts again
Gesture_NoDownTest(s, held) ==
    IF held = 1 THEN "cut"
    ELSE IF s = 1 /\ held = 2 THEN "loop"
    ELSE "none"

\* no new cut taken while one is pending
Gesture_NotWhilePending(s, held) ==
    IF s = 1 /\ held = 1 /\ ~cutting THEN "cut"
    ELSE IF s = 1 /\ held = 2 THEN "loop"
    ELSE "none"

\* ---- on_grid_key(): which request a bottom-row event makes, held being
\* ---- keys_held after its update (lines 179 and 184) ----
Gesture(s, held) ==
    IF s = 1 /\ held = 1 THEN "cut"
    ELSE IF s = 1 /\ held = 2 THEN "loop"
    ELSE "none"

\* loop points put in ascending order
LoopPoints_Sorted(first, x) ==
    IF first <= x THEN <<first, x>> ELSE <<x, first>>

\* loop points taken in the other order: the second key as loop_start
LoopPoints_Reversed(first, x) == <<x, first>>

\* ---- on_grid_key(): the loop points set by the second key (lines 185-186) ----
LoopPoints(first, x) == <<first, x>>

\* the loop_end test made before the edge test
Advance_LoopFirst(pos, cut, nxt, w, ls, le) ==
    IF cut THEN nxt
    ELSE IF pos = le THEN ls
    ELSE IF pos = w - 1 THEN 0
    ELSE pos + 1

\* the edge test made before the cut test
Advance_EdgeFirst(pos, cut, nxt, w, ls, le) ==
    IF pos = w - 1 THEN 0
    ELSE IF cut THEN nxt
    ELSE IF pos = le THEN ls
    ELSE pos + 1

\* the edge test made against the other dimension of the grid
Advance_WrongDim(pos, cut, nxt, w, ls, le) ==
    IF cut THEN nxt
    ELSE IF pos = height - 1 THEN 0
    ELSE IF pos = le THEN ls
    ELSE pos + 1

\* the loop_end test left out
Advance_NoLoop(pos, cut, nxt, w, ls, le) ==
    IF cut THEN nxt
    ELSE IF pos = w - 1 THEN 0
    ELSE pos + 1

\* the wrap at loop_end going to column 0 instead of loop_start
Advance_LoopToZero(pos, cut, nxt, w, ls, le) ==
    IF cut THEN nxt
    ELSE IF pos = w - 1 THEN 0
    ELSE IF pos = le THEN 0
    ELSE pos + 1

\* the edge test left out
Advance_NoEdge(pos, cut, nxt, w, ls, le) ==
    IF cut THEN nxt
    ELSE IF pos = le THEN ls
    ELSE pos + 1

\* ---- play(): the advance of the playhead (lines 137-144) ----
Advance(pos, cut, nxt, w, ls, le) ==
    IF cut THEN nxt
    ELSE IF pos = w - 1 THEN 0
    ELSE IF pos = le THEN ls
    ELSE pos + 1

\* the trigger loop left at the first row that fires
RECURSIVE TriggerLoop_Break(_, _, _, _)
TriggerLoop_Break(st, pos, y, n) ==
    IF y >= n THEN <<>>
    ELSE IF st[y][pos] = 1 THEN <<y>>
    ELSE TriggerLoop_Break(st, pos, y + 1, n)

\* ---- play(): the trigger loop (lines 147-149), rows in ascending order ----
RECURSIVE TriggerLoop(_, _, _, _)
TriggerLoop(st, pos, y, n) ==
    IF y >= n THEN <<>>
    ELSE (IF st[y][pos] = 1 THEN <<y>> ELSE <<>>) \o TriggerLoop(st, pos, y + 1, n)

\* ---- GridStudies.__init__ on a grid whose (width, height) is in G ----
InitOn(G) ==
    /\ \E g \in G :
        /\ width = g[1]
        /\ height = g[2]
    /\ sequencer_rows = height - ReservedRows
    /\ step = [y \in Rows |-> [x \in Cols |-> 0]]
    /\ play_position = -1
    /\ next_position = -1
    /\ cutting = FALSE
    /\ loop_start = 0
    /\ loop_end = width - 1
    /\ keys_held = 0
    /\ key_last = 0
    /\ connected = TRUE
    /\ pc = "sleep"
    /\ play_alive = TRUE
    /\ raised = FALSE
    /\ trigger_calls = <<>>
    /\ draw_calls = 1
    /\ levels = Buffer(step)
    /\ last = [op |-> "init", from |-> -1, cut |-> FALSE, row |-> -1, over |-> -1]
    /\ downs = [y \in SeqRows |-> [x \in Cols |-> 0]]
    /\ keyed = FALSE
    /\ stray = 0

Init == InitOn(Geometries)

\* ---- one pass of the play() loop, from the sleep to the next sleep ----
play ==
    /\ play_alive
    /\ pc = "sleep"
    /\ play_position < width + MaxRun
    /\ LET pos == Advance(play_position, cutting, next_position, width, loop_start, loop_end)
       IN /\ play_position' = pos
          /\ last' = [op |-> "play", from |-> play_position, cut |-> cutting, row |-> -1,
                      over |-> IF cutting THEN last.over ELSE -1]
          /\ IF sequencer_rows >= 1 /\ ~InRange(pos, width)
             THEN \* step[0][pos] raises IndexError: the task ends, cutting is not cleared
                  /\ play_alive' = FALSE
                  /\ raised' = TRUE
                  /\ trigger_calls' = <<>>
                  /\ draw_calls' = 0
                  /\ UNCHANGED <<cutting, levels>>
             ELSE /\ trigger_calls' = TriggerLoop(step, Norm(pos, width), 0, sequencer_rows)
                  /\ cutting' = FALSE
                  /\ raised' = FALSE
                  /\ play_alive' = TRUE
                  /\ IF connected
                     THEN draw_calls' = 1 /\ levels' = Buffer(step)
                     ELSE draw_calls' = 0 /\ UNCHANGED levels
    /\ UNCHANGED <<geom, step, next_position, loop_start, loop_end, gesture, connected, pc, history>>

\* ---- on_grid_key(x, y, s) ----
on_grid_key(x, y, s) ==
    /\ trigger_calls' = <<>>
    /\ last' = [op |-> IF s = 1 THEN "down" ELSE "up", from |-> -1, cut |-> FALSE, row |-> y,
                over |-> IF cutting /\ s = 1 /\ y = height - 1 /\ keys_held = 0
                         THEN next_position ELSE -1]
    /\ UNCHANGED <<geom, play_position, connected, pc, play_alive>>
    /\ IF IsStepKey(s, y)
       THEN IF InRange(y, height) /\ InRange(x, width)
            THEN /\ step' = Toggle(step, y, x)
                 /\ levels' = Buffer(step')
                 /\ draw_calls' = 1
                 /\ raised' = FALSE
                 /\ UNCHANGED <<next_position, cutting, loop_start, loop_end, gesture>>
            ELSE /\ raised' = TRUE
                 /\ draw_calls' = 0
                 /\ UNCHANGED <<step, levels, next_position, cutting, loop_start, loop_end, gesture>>
       ELSE IF IsBottomRow(y)
       THEN /\ keys_held' = keys_held + (s * 2) - 1
            /\ IF Gesture(s, keys_held') = "cut"
               THEN /\ cutting' = TRUE
                    /\ next_position' = x
                    /\ key_last' = x
                    /\ UNCHANGED <<loop_start, loop_end>>
               ELSE IF Gesture(s, keys_held') = "loop"
               THEN /\ loop_start' = LoopPoints(key_last, x)[1]
                    /\ loop_end' = LoopPoints(key_last, x)[2]
                    /\ UNCHANGED <<cutting, next_position, key_last>>
               ELSE UNCHANGED <<cutting, next_position, key_last, loop_start, loop_end>>
            /\ draw_calls' = 0
            /\ raised' = FALSE
            /\ UNCHANGED <<step, levels>>
       ELSE /\ draw_calls' = 0
            /\ raised' = FALSE
            /\ UNCHANGED <<step, levels, next_position, cutting, loop_start, loop_end, gesture>>

on_grid_ready ==
    /\ connected' = TRUE
    /\ levels' = Buffer(step)
    /\ draw_calls' = 1
    /\ trigger_calls' = <<>>
    /\ last' = [op |-> "ready", from |-> -1, cut |-> FALSE, row |-> -1, over |-> -1]
    /\ raised' = FALSE
    /\ UNCHANGED <<geom, step, playhead, gesture, pc, play_alive, history>>

on_grid_disconnect ==
    /\ connected' = FALSE
    /\ draw_calls' = 0
    /\ trigger_calls' = <<>>
    /\ last' = [op |-> "disconnect", from |-> -1, cut |-> FALSE, row |-> -1, over |-> -1]
    /\ raised' = FALSE
    /\ UNCHANGED <<geom, step, playhead, gesture, pc, play_alive, levels, history>>

\* ---- the key events a grid of this geometry sends ----
HeldInBounds(y, s) ==
    y = height - 1 =>
        /\ (s = 1 => keys_held < MaxHeld)
        /\ (s = 0 => keys_held > -MaxUnder)

CountDown(x, y, s) ==
    IF s = 1 /\ y \in SeqRows /\ x \in Cols
    THEN [downs EXCEPT ![y][x] = 1 - @]
    ELSE downs

KeyEvent ==
    \E x \in Cols, y \in Rows, s \in {0, 1} :
        /\ HeldInBounds(y, s)
        /\ on_grid_key(x, y, s)
        /\ downs' = CountDown(x, y, s)
        /\ keyed' = TRUE
        /\ UNCHANGED stray

Next ==
    \/ play
    \/ KeyEvent
    \/ on_grid_ready
    \/ on_grid_disconnect

Spec == Init /\ [][Next]_vars

\* ---- key events with coordinates outside the grid: on_grid_key() does not
\* ---- check x or y, so they reach the same code ----
StrayCoords ==
    {c \in ((-Margin)..(width - 1 + Margin)) \X ((-Margin)..(height - 1 + Margin)) :
        ~(c[1] \in Cols /\ c[2] \in Rows)}

StrayKeyEvent ==
    /\ stray < MaxStray
    /\ \E c \in StrayCoords, s \in {0, 1} :
        /\ HeldInBounds(c[2], s)
        /\ on_grid_key(c[1], c[2], s)
        /\ downs' = CountDown(c[1], c[2], s)
        /\ keyed' = TRUE
        /\ stray' = stray + 1

NextStray ==
    \/ play
    \/ KeyEvent
    \/ on_grid_ready
    \/ on_grid_disconnect
    \/ StrayKeyEvent

SpecStray == Init /\ [][NextStray]_vars

\* ---- construction on whatever the grid reports: __init__ copies grid.width
\* ---- and grid.height (lines 108-109) and tests neither ----
AnyGeometries ==
    {g \in ((-Margin)..MaxWidth) \X ((-Margin)..MaxHeight) :
        g[1] <= 0 \/ g[2] <= ReservedRows \/ g[1] * (g[2] - ReservedRows) <= MaxCells}

InitAnyGrid == InitOn(AnyGeometries)

SpecAnyGrid == InitAnyGrid /\ [][Next]_vars

\* ---- play() beside the thread of the OSC server (lines 71-77): key events
\* ---- are dispatched on that thread, play() runs on the asyncio loop, and no
\* ---- lock is taken, so a key event can run between the statements of a pass.
\* ---- The pass is cut at its three parts; on_grid_key stays one step.

\* lines 137-144
play_advance ==
    /\ play_alive
    /\ pc = "sleep"
    /\ play_position < width + MaxRun
    /\ play_position' =
          Advance(play_position, cutting, next_position, width, loop_start, loop_end)
    /\ pc' = "trigger"
    /\ last' = [op |-> "advance", from |-> play_position, cut |-> cutting, row |-> -1,
                over |-> IF cutting THEN last.over ELSE -1]
    /\ trigger_calls' = <<>>
    /\ draw_calls' = 0
    /\ raised' = FALSE
    /\ UNCHANGED <<geom, step, next_position, cutting, loop_start, loop_end, gesture,
                   connected, play_alive, levels, history>>

\* lines 147-149
play_trigger ==
    /\ play_alive
    /\ pc = "trigger"
    /\ IF sequencer_rows >= 1 /\ ~InRange(play_position, width)
       THEN /\ play_alive' = FALSE
            /\ raised' = TRUE
            /\ trigger_calls' = <<>>
            /\ pc' = "sleep"
       ELSE /\ trigger_calls' =
                  TriggerLoop(step, Norm(play_position, width), 0, sequencer_rows)
            /\ raised' = FALSE
            /\ pc' = "clear"
            /\ UNCHANGED play_alive
    /\ draw_calls' = 0
    /\ last' = [last EXCEPT !.op = "trigger"]
    /\ UNCHANGED <<geom, step, playhead, gesture, connected, levels, history>>

\* lines 151-154
play_clear ==
    /\ play_alive
    /\ pc = "clear"
    /\ cutting' = FALSE
    /\ IF connected
       THEN draw_calls' = 1 /\ levels' = Buffer(step)
       ELSE draw_calls' = 0 /\ UNCHANGED levels
    /\ pc' = "sleep"
    /\ last' = [last EXCEPT !.op = "clear"]
    /\ trigger_calls' = <<>>
    /\ raised' = FALSE
    /\ UNCHANGED <<geom, step, play_position, next_position, loop_start, loop_end,
                   gesture, connected, play_alive, history>>

NextThreads ==
    \/ play_advance
    \/ play_trigger
    \/ play_clear
    \/ KeyEvent
    \/ on_grid_ready
    \/ on_grid_disconnect

SpecThreads == Init /\ [][NextThreads]_vars

\* ======================================================================
\* Properties
\* ======================================================================

\* what the claims call the next position of a playhead at p with no cut pending
NextNoCut(p) ==
    IF p = width - 1 THEN 0
    ELSE IF p = loop_end THEN loop_start
    ELSE p + 1

AfterPlay == last.op = "play"

Count(seq, v) == Cardinality({i \in 1..Len(seq) : seq[i] = v})

\* C1: a pass of play() that starts with no cut pending at position p sets
\* play_position to 0 if p = width - 1, else to loop_start if p = loop_end,
\* else to p + 1 (the edge test comes first).
C1_PlayheadAdvance ==
    (AfterPlay /\ ~last.cut) => play_position = NextNoCut(last.from)

\* C1 witness: a pass without a cut has started at the last column, which was
\* also loop_end, with loop_start elsewhere, and has gone to column 0.
C1_Witness ==
    /\ AfterPlay /\ ~last.cut
    /\ last.from = width - 1
    /\ loop_end = width - 1
    /\ loop_start > 0
    /\ play_position = 0

\* C2: a pass of play() that starts with a cut pending ends with
\* play_position = next_position (the column of the cut) and cutting false,
\* whatever position it started from.
C2_CutPrecedence ==
    (AfterPlay /\ last.cut) => (play_position = next_position /\ ~cutting)

\* C2 witness: a cut has been applied by a pass that started at the last
\* column, which was also loop_end, and the cut column is neither 0 nor
\* loop_start.
C2_Witness ==
    /\ AfterPlay /\ last.cut
    /\ last.from = width - 1
    /\ last.from = loop_end
    /\ play_position = next_position
    /\ play_position \notin {0, loop_start}

\* C3: with no bottom-row key held, a press on the bottom row at column x
\* makes a cut request to x (cutting, next_position = x) and leaves the loop
\* points alone; the release that follows makes no request and takes
\* keys_held back to 0, so that the next tap cuts again.
C3_IsolatedTap ==
    [][\A x \in Cols :
        /\ (keys_held = 0 /\ on_grid_key(x, height - 1, 1)) =>
              /\ cutting' /\ next_position' = x
              /\ keys_held' = 1
              /\ UNCHANGED <<loop_start, loop_end>>
        /\ (keys_held = 1 /\ on_grid_key(x, height - 1, 0)) =>
              /\ keys_held' = 0
              /\ UNCHANGED <<cutting, next_position, loop_start, loop_end>>
      ]_vars

\* C3 witness: a tap is over (its release was the latest event), its cut is
\* pending and the loop points are those of the start.
C3_Witness ==
    /\ last.op = "up"
    /\ keys_held = 0
    /\ cutting /\ next_position = width - 1
    /\ width > 1
    /\ loop_start = 0 /\ loop_end = width - 1
    /\ play_position >= 0

NotBottomRowStep ==
    \/ play
    \/ on_grid_ready
    \/ on_grid_disconnect
    \/ \E x \in Cols, y \in Rows \ {height - 1}, s \in {0, 1} : on_grid_key(x, y, s)

\* C4: with no bottom-row key held, a bottom-row press at x records x
\* (key_last) with keys_held = 1; a step that is no bottom-row event leaves
\* both as they are; and the next bottom-row press, at y, sets
\* (loop_start, loop_end) to exactly (x, y), in this order.
C4_LoopSet ==
    [][/\ \A x \in Cols :
            (keys_held = 0 /\ on_grid_key(x, height - 1, 1)) =>
                (keys_held' = 1 /\ key_last' = x)
       /\ (UNCHANGED <<keys_held, key_last>>) \/ ~NotBottomRowStep
       /\ \A y \in Cols :
            (keys_held = 1 /\ on_grid_key(y, height - 1, 1)) =>
                (loop_start' = key_last /\ loop_end' = y /\ keys_held' = 2)
      ]_vars

\* C4 witness: a second key has just been pressed while the first is held,
\* at a column to the left of the first, and the loop points are (x, y).
C4_Witness ==
    /\ last.op = "down"
    /\ keys_held = 2
    /\ loop_start = key_last
    /\ loop_end < loop_start

\* C5: every sequencer cell holds 1 exactly when the number of key-downs
\* received for that cell is odd.
C5_ToggleParity ==
    \A y \in SeqRows : \A x \in Cols : step[y][x] = downs[y][x]

\* C5 witness: after key-downs and passes of play(), a cell is on and
\* another cell is off.
C5_Witness ==
    /\ play_position >= 0
    /\ \E y \in SeqRows : \E x \in Cols : step[y][x] = 1
    /\ \E y \in SeqRows : \E x \in Cols : step[y][x] = 0

\* C6: a pass of play() calls trigger(row) once for each sequencer row whose
\* cell in the column of the new play_position is set, and for no other row.
C6_Triggers ==
    AfterPlay =>
        /\ \A i \in 1..Len(trigger_calls) : trigger_calls[i] \in SeqRows
        /\ \A r \in SeqRows :
            Count(trigger_calls, r) = IF step[r][play_position] = 1 THEN 1 ELSE 0

\* C6 witness: a pass has triggered the second of two sequencer rows and not
\* the first, whose cell is off.
C6_Witness ==
    /\ AfterPlay
    /\ sequencer_rows = 2
    /\ trigger_calls = <<1>>
    /\ step[0][play_position] = 0

\* C7: as long as no key event has been received the loop points are
\* (0, width - 1), no cut is pending, and each pass of play() goes from -1
\* to 0, from p to p + 1, and from width - 1 to 0.
C7_FreeRun ==
    ~keyed =>
        /\ loop_start = 0 /\ loop_end = width - 1 /\ ~cutting
        /\ AfterPlay =>
            play_position = (IF last.from = width - 1 THEN 0 ELSE last.from + 1)

\* C7 witness: with no key event so far, a pass has wrapped from the last
\* column of a grid of three columns to column 0.
C7_Witness ==
    /\ ~keyed
    /\ AfterPlay
    /\ width = 3
    /\ last.from = width - 1
    /\ play_position = 0

InLoop(p) == loop_start <= p /\ p <= loop_end

\* C8 as stated: a pass of play() that starts with no cut pending at a
\* position inside [loop_start, loop_end], loop_start <= loop_end, ends at a
\* position inside [loop_start, loop_end].
C8_StaysInLoop ==
    (AfterPlay /\ ~last.cut /\ loop_start <= loop_end /\ InLoop(last.from))
        => InLoop(play_position)

\* C8 amended: the same, for a loop region that does not end at the last
\* column or that starts at column 0.
C8_StaysInLoopAmended ==
    (/\ AfterPlay /\ ~last.cut
     /\ loop_start <= loop_end /\ InLoop(last.from)
     /\ (loop_end < width - 1 \/ loop_start = 0))
        => InLoop(play_position)

\* C8 witness: a pass has wrapped from loop_end to loop_start inside a grid
\* whose last column is outside the loop region, and loop_start is not 0.
C8_Witness ==
    /\ AfterPlay /\ ~last.cut
    /\ loop_start > 0
    /\ loop_start < loop_end
    /\ loop_end < width - 1
    /\ last.from = loop_end
    /\ play_position = loop_start

\* C9: a key event from outside the grid changes no cell of step, no field
\* of the playhead and no field of the gesture, and raises no exception.
C9_StrayIgnored ==
    [][StrayKeyEvent => (UNCHANGED <<step, playhead, gesture>> /\ ~raised')]_vars

\* C10: a release on the bottom row takes 1 from keys_held and leaves
\* cutting, next_position, key_last, the loop points, play_position and step
\* unchanged.
C10_ReleaseFrame ==
    [][\A x \in Cols :
        on_grid_key(x, height - 1, 0) =>
            /\ keys_held' = keys_held - 1
            /\ UNCHANGED <<cutting, next_position, key_last, loop_start, loop_end,
                           play_position, step>>
      ]_vars

\* C10 witness: the release of one of two held keys was the latest event,
\* one key is still held, and no cut is pending.
C10_Witness ==
    /\ last.op = "up"
    /\ keys_held = 1
    /\ ~cutting
    /\ loop_start > loop_end

\* C11: a key event, press or release, on the row below the sequencer rows
\* (row = sequencer_rows = height - 2) changes no cell of step, no field of
\* the playhead, no field of the gesture, and calls draw() not once.
C11_SpareRowIgnored ==
    [][\A x \in Cols, s \in {0, 1} :
        on_grid_key(x, sequencer_rows, s) =>
            /\ UNCHANGED <<step, playhead, gesture, levels>>
            /\ draw_calls' = 0
      ]_vars

\* C11 witness: a press on the row below the sequencer rows was the latest
\* event, while a cut is pending and a cell is set.
C11_Witness ==
    /\ last.op = "down"
    /\ last.row = sequencer_rows
    /\ last.row = height - 2
    /\ cutting
    /\ \E y \in SeqRows : \E x \in Cols : step[y][x] = 1

\* C12: the rows last rendered hold level 11 where the sequencer cell is set
\* and level 0 where it is off, for every sequencer row and column, whatever
\* play_position is.
C12_RenderLevels ==
    \A y \in SeqRows : \A x \in Cols :
        levels[y][x] = (IF step[y][x] = 1 THEN 11 ELSE 0)

\* C12 witness: a pass of play() has drawn with the playhead on a set cell,
\* rendered at level 11, next to a cell that is off, rendered at level 0.
C12_Witness ==
    /\ AfterPlay
    /\ draw_calls = 1
    /\ \E y \in SeqRows :
        /\ step[y][play_position] = 1
        /\ levels[y][play_position] = 11
    /\ \E y \in SeqRows : \E x \in Cols :
        /\ step[y][x] = 0
        /\ levels[y][x] = 0

\* C13: while the grid is disconnected no handler run calls draw().
C13_NoDrawDisconnected ==
    ~connected => draw_calls = 0

\* C14: no state has sequencer_rows < 0 or width <= 0, construction on such
\* a grid being rejected.
C14_ValidGeometry ==
    sequencer_rows >= 0 /\ width > 0

\* C15 as stated: with loop_start > loop_end, a pass of play() that starts
\* with no cut pending only goes from p to p + 1, or from width - 1 to 0.
C15_InvertedLoopNeverJumps ==
    (AfterPlay /\ ~last.cut /\ loop_start > loop_end) =>
        play_position = (IF last.from = width - 1 THEN 0 ELSE last.from + 1)

\* C15 amended: with loop_start > loop_end, a pass of play() that starts
\* with no cut pending goes from loop_end to loop_start, and from any other
\* p to p + 1, or from width - 1 to 0.
C15_InvertedLoopJumpsAtEnd ==
    (AfterPlay /\ ~last.cut /\ loop_start > loop_end) =>
        play_position =
            (IF last.from = loop_end THEN loop_start
             ELSE IF last.from = width - 1 THEN 0
             ELSE last.from + 1)

\* C15 witness: with loop_start > loop_end + 1, a pass with no cut pending
\* has started at loop_end and has jumped forward to loop_start.
C15_Witness ==
    /\ AfterPlay /\ ~last.cut
    /\ loop_start > loop_end + 1
    /\ last.from = loop_end
    /\ play_position = loop_start

\* C16: a cut requested while another is pending replaces it (next_position
\* becomes the new column, one request is pending); the pass of play() that
\* finds a cut pending goes to next_position and clears the flag; and a pass
\* that finds none, as the pass after a cut does, advances from where the
\* playhead is.
C16_OneShotCut ==
    [][/\ \A x \in Cols :
            (cutting /\ keys_held = 0 /\ on_grid_key(x, height - 1, 1)) =>
                (cutting' /\ next_position' = x)
       /\ (cutting /\ play) => (play_position' = next_position /\ ~cutting')
       /\ (~cutting /\ play) => (play_position' = NextNoCut(play_position) /\ ~cutting')
      ]_vars

\* C16 witness: a pass of play() has applied a cut to c2 right after that
\* request replaced a pending request to another column c1 (last.over), and
\* the playhead is on c2, not on c1, with no cut pending.
C16_Witness ==
    /\ AfterPlay /\ last.cut
    /\ last.over \in Cols
    /\ last.over # play_position
    /\ play_position = next_position
    /\ ~cutting

\* C17: play_position is -1 or a column of the grid, loop_start and loop_end
\* are columns of the grid; every pass of play() leaves play_position on a
\* column, and once on a column it stays on one.
C17_Ranges ==
    /\ [](/\ play_position \in {-1} \cup Cols
          /\ loop_start \in Cols
          /\ loop_end \in Cols)
    /\ [][(play_position' \in Cols) \/ (play_position \notin Cols /\ ~play)]_vars

\* C17 witness: after key events and a pass of play() the playhead is on the
\* last column, loop_start is the last column and loop_end is column 0.
C17_Witness ==
    /\ AfterPlay
    /\ width > 1
    /\ play_position = width - 1
    /\ loop_start = width - 1
    /\ loop_end = 0

\* C18: a step that changes step is a key-down on a sequencer row, and it
\* flips the pressed cell and no other; passes of play(), draws, key-ups,
\* bottom-row events and events on the row below the sequencer rows leave
\* step as it is.
C18_StepFrame ==
    [][\/ step' = step
       \/ \E y \in SeqRows, x \in Cols :
            /\ on_grid_key(x, y, 1)
            /\ step' = [step EXCEPT ![y][x] = 1 - @]
      ]_vars

\* C18 witness: a key-down on a sequencer row was the latest event, after a
\* pass of play(), and one cell is set, all others are off.
C18_Witness ==
    /\ last.op = "down"
    /\ last.row \in SeqRows
    /\ play_position >= 0
    /\ Cardinality({c \in Rows \X Cols : step[c[1]][c[2]] = 1}) = 1
    /\ \E y \in SeqRows, x \in Cols : step[y][x] = 1

\* C19: the cutting flag goes from true to false only in a step that leaves
\* the playhead on the requested column: no cut request is cleared without
\* having been applied, no key event running inside a pass of play().
C19_NoCutLost ==
    [][(cutting /\ ~cutting') => play_position' = next_position]_vars

\* C20: while the cut of the first key of a pair is still pending and two
\* bottom-row keys are held, loop_start is the column of that cut; and the
\* pass of play() that finds this cut pending leaves the playhead on
\* loop_start.
C20_LoopSetCuts ==
    /\ (cutting /\ keys_held = 2) => loop_start = next_position
    /\ (AfterPlay /\ last.cut /\ keys_held = 2) => play_position = loop_start

\* C20 witness: with two keys held, a pass has applied the cut of the first
\* key from the last column, and the playhead is on loop_start, to the right
\* of loop_end, not on column 0.
C20_Witness ==
    /\ AfterPlay /\ last.cut
    /\ keys_held = 2
    /\ last.from = width - 1
    /\ loop_end < loop_start
    /\ play_position = loop_start

====
